---- MODULE Spec2Model ----
(***************************************************************************)
(* A model of src/src/pdf_to_images.py: the page export pipeline of        *)
(* pdf_to_images() and its helpers.                                        *)
(*                                                                         *)
(* Python values: an Optional[...] argument is <<>> (None) or <<v>>; an    *)
(* image is [mode, w, h]; an exception is the name of its class followed   *)
(* by its message; a path is the string the code builds.                   *)
(***************************************************************************)
EXTENDS Integers, Sequences, FiniteSets, TLC

VARIABLES
    pdf,        \* the input file: [exists, needs_pass, n_pages]
    req,        \* the arguments of the current call of pdf_to_images
    pc,         \* the statement the current call is at
    err,        \* the exception the current call raised ("" if none)
    fmt,        \* the local fmt (normalised at line 86-88)
    out,        \* the local out_dir once resolved (line 104)
    rng,        \* <<first, last>> once resolved (line 115), <<>> before
    i,          \* the loop variable of line 120
    doc,        \* the document handle: "none", "open", "closed"
    authed,     \* whether the open handle is authenticated
    dirs,       \* directories that exist
    files,      \* output files: path -> [by, page, mode, encoder], where by
                \* tells whether the current call wrote the file ("this
                \* call") or an earlier one did
    log,        \* history: the stages executed by the current call
    pages,      \* history: per page read from the handle, [page, status, path]
    written,    \* history: the paths the current call wrote, in order
    encoded,    \* history: what the last iteration handed to the encoder
    opens,      \* history: how often the current call opened the document
    closes,     \* history: how often the current call released the handle
    auths,      \* history: how often the current call called authenticate
    before,     \* history: files when the current call started
    rin,        \* range check: the inputs <<start, end, n_pages>>
    rout        \* range check: the outcome of _validate_range

vars == <<pdf, req, pc, err, fmt, out, rng, i, doc, authed, dirs, files,
          log, pages, written, encoded, opens, closes, auths, before, rin, rout>>

pipeVars == <<pdf, req, pc, err, fmt, out, rng, i, doc, authed, dirs,
              files, log, pages, written, encoded, opens, closes, auths,
              before>>

----------------------------------------------------------------------------
(* Bounds                                                                  *)

MaxPages == 2

MaxNonDefault == 2

----------------------------------------------------------------------------
(* Python values                                                           *)

None == <<>>

Some(v) == <<v>>

\* Python truthiness of an Optional[int]: None and 0 are falsy.
TruthyInt(x) == x # None /\ x[1] # 0

\* Python truthiness of an Optional[str]: None and "" are falsy.
TruthyStr(x) == x # None /\ x[1] # ""

Max(a, b) == IF a >= b THEN a ELSE b

Min(a, b) == IF a <= b THEN a ELSE b

Abs(a) == IF a >= 0 THEN a ELSE -a

VALID_FORMATS == {"jpg", "jpeg", "png", "webp"}

DefaultDpi == 200

DefaultQuality == 90

DefaultTemplate == "{stem}_p{page:03d}"

----------------------------------------------------------------------------
(* _validate_range                                                         *)

\* The same function with the upper clamp forgotten.
ValidateRangeNoClamp(start, end, n_pages) ==
    LET first == IF ~TruthyInt(start) THEN 0 ELSE Max(0, start[1] - 1)
        last  == IF ~TruthyInt(end) THEN n_pages - 1 ELSE end[1] - 1
    IN  IF first > last
        THEN [raised |-> "ValueError: Invalid range",
              start |-> start, end |-> end, n_pages |-> n_pages]
        ELSE [raised |-> "", first |-> first, last |-> last]

ValidateRange(start, end, n_pages) ==
    LET first == IF ~TruthyInt(start) THEN 0 ELSE Max(0, start[1] - 1)
        last  == IF ~TruthyInt(end) THEN n_pages - 1
                                    ELSE Min(n_pages - 1, end[1] - 1)
    IN  IF first > last
        THEN [raised |-> "ValueError: Invalid range",
              start |-> start, end |-> end, n_pages |-> n_pages]
        ELSE [raised |-> "", first |-> first, last |-> last]

----------------------------------------------------------------------------
(* The image helpers.  An image is [mode, w, h].                           *)

FlattenToRgb(img) ==
    IF img.mode = "RGBA"
    THEN [img EXCEPT !.mode = "RGB"]      \* alpha_composite over white, convert
    ELSE IF img.mode # "RGB"
         THEN [img EXCEPT !.mode = "RGB"]
         ELSE img

MaybeGrayscale(img, grayscale) ==
    IF grayscale THEN [img EXCEPT !.mode = "L"] ELSE img

\* Pillow's round_aspect of Image.thumbnail: of floor and ceil of num/den the
\* one whose key is smaller (floor on a tie), and at least 1.  keyF and keyC
\* are the keys of floor and ceil as fractions <<numerator, denominator>>,
\* both scaled by the same positive factor.
RoundAspect(fl, ce, keyF, keyC) ==
    Max(IF keyF[1] * keyC[2] <= keyC[1] * keyF[2] THEN fl ELSE ce, 1)

CeilDiv(a, b) == (a + b - 1) \div b

\* Image.thumbnail((x, y)): shrink in place to fit the box, keeping the aspect.
Thumbnail(img, x, y) ==
    IF x >= img.w /\ y >= img.h
    THEN img
    ELSE IF x * img.h >= y * img.w
         THEN LET fl == (y * img.w) \div img.h
                  ce == CeilDiv(y * img.w, img.h)
                  key(n) == <<Abs(img.w * y - n * img.h), 1>>
              IN  [img EXCEPT !.w = RoundAspect(fl, ce, key(fl), key(ce)), !.h = y]
         ELSE LET fl == (x * img.h) \div img.w
                  ce == CeilDiv(x * img.h, img.w)
                  key(n) == IF n = 0 THEN <<0, 1>>
                            ELSE <<Abs(img.w * n - x * img.h), n>>
              IN  [img EXCEPT !.w = x, !.h = RoundAspect(fl, ce, key(fl), key(ce))]

MaybeDownscale(img, max_dim) ==
    IF TruthyInt(max_dim) /\ Max(img.w, img.h) > max_dim[1]
    THEN Thumbnail(img, max_dim[1], max_dim[1])
    ELSE img

\* One transform of the chain: the image after it and the record of the call.
Applied(s, op, img) ==
    [img |-> img, ops |-> Append(s.ops, [op |-> op, on |-> s.img.mode])]

\* The chain with the grayscale conversion placed before the flatten.
TransformChainGrayFirst(img, f, grayscale, max_dim) ==
    LET s0 == [img |-> img, ops |-> <<>>]
        s1 == IF grayscale
              THEN Applied(s0, "grayscale", MaybeGrayscale(s0.img, grayscale))
              ELSE s0
        s2 == IF f \in {"jpg", "webp"}
              THEN Applied(s1, "flatten", FlattenToRgb(s1.img))
              ELSE s1
        s3 == IF MaybeDownscale(s2.img, max_dim) # s2.img
              THEN Applied(s2, "downscale", MaybeDownscale(s2.img, max_dim))
              ELSE s2
    IN  s3

\* Lines 126-129: flatten for jpg and webp, then grayscale, then downscale.
\* ops lists the conversions that were carried out and the mode each was
\* applied to.
TransformChain(img, f, grayscale, max_dim) ==
    LET s0 == [img |-> img, ops |-> <<>>]
        s1 == IF f \in {"jpg", "webp"}
              THEN Applied(s0, "flatten", FlattenToRgb(s0.img))
              ELSE s0
        s2 == IF grayscale
              THEN Applied(s1, "grayscale", MaybeGrayscale(s1.img, grayscale))
              ELSE s1
        s3 == IF MaybeDownscale(s2.img, max_dim) # s2.img
              THEN Applied(s2, "downscale", MaybeDownscale(s2.img, max_dim))
              ELSE s2
    IN  s3

----------------------------------------------------------------------------
(* The rendering engine, as the code consumes it.                          *)

\* Page geometry of the modelled document, in points (1/72 inch).
PageSizePt == <<108, 144>>

CorrectPassword == "secret"

\* page.get_pixmap(matrix=Matrix(dpi/72, dpi/72), alpha=True)
Pixmap(dpi, alpha) ==
    [mode |-> IF alpha THEN "RGBA" ELSE "RGB",
     w |-> CeilDiv(PageSizePt[1] * dpi, 72),
     h |-> CeilDiv(PageSizePt[2] * dpi, 72)]

----------------------------------------------------------------------------
(* File names                                                              *)

Digit == <<"0", "1", "2", "3", "4", "5", "6", "7", "8", "9">>

RECURSIVE DecStr(_)
DecStr(n) == IF n < 10 THEN Digit[n + 1]
             ELSE DecStr(n \div 10) \o Digit[(n % 10) + 1]

RECURSIVE DecLen(_)
DecLen(n) == IF n < 10 THEN 1 ELSE 1 + DecLen(n \div 10)

RECURSIVE Zeros(_)
Zeros(k) == IF k <= 0 THEN "" ELSE "0" \o Zeros(k - 1)

\* format(n, "03d") for n >= 0
ZeroPad3(n) == Zeros(3 - DecLen(n)) \o DecStr(n)

PdfStem == "doc"

Templates == {DefaultTemplate, "{stem}", "{name}_{page}"}

\* filename_template.format(stem=stem, page=page) for the templates modelled
FormatTemplate(template, stem, page) ==
    CASE template = DefaultTemplate -> [raised |-> "", value |-> stem \o "_p" \o ZeroPad3(page)]
      [] template = "{stem}"        -> [raised |-> "", value |-> stem]
      [] OTHER                      -> [raised |-> "KeyError: 'name'", value |-> ""]

\* The same with the 0-based loop index used as the page number.
OutFileZeroBased(out_dir, template, idx, f) ==
    LET b == FormatTemplate(template, PdfStem, idx)
    IN  [raised |-> b.raised,
         path |-> out_dir \o "/" \o b.value \o "." \o f]

\* Lines 131-133: the target path of page index idx
OutFile(out_dir, template, idx, f) ==
    LET b == FormatTemplate(template, PdfStem, idx + 1)
    IN  [raised |-> b.raised,
         path |-> out_dir \o "/" \o b.value \o "." \o f]

----------------------------------------------------------------------------
(* Request validation, lines 86-98                                         *)

\* str.lower() on the format strings modelled
Lower(f) ==
    CASE f = "JPEG" -> "jpeg"
      [] f = "PNG"  -> "png"
      [] OTHER      -> f

\* The outcome of lines 86-98: the exception raised ("" if none), the
\* normalised fmt and the checks that were evaluated, in order.
ValidateArgs(f, dpi, quality) ==
    LET l == Lower(f)
        n == IF l = "jpeg" THEN "jpg" ELSE l
    IN  IF n \notin VALID_FORMATS
        THEN [raised |-> "ValueError: Unsupported format", fmt |-> n,
              checks |-> <<"format">>]
        ELSE IF dpi <= 0
        THEN [raised |-> "ValueError: dpi must be > 0.", fmt |-> n,
              checks |-> <<"format", "dpi">>]
        ELSE IF n \in {"jpg", "webp"}
        THEN IF ~(1 <= quality /\ quality <= 100)
             THEN [raised |-> "ValueError: quality must be in [1, 100].", fmt |-> n,
                   checks |-> <<"format", "dpi", "quality">>]
             ELSE [raised |-> "", fmt |-> n, checks |-> <<"format", "dpi", "quality">>]
        ELSE [raised |-> "", fmt |-> n, checks |-> <<"format", "dpi">>]

----------------------------------------------------------------------------
(* The calls modelled                                                      *)

\* The defaults of the signature, lines 54-67
Defaults ==
    [out_dir |-> None, dpi |-> DefaultDpi, quality |-> DefaultQuality,
     start |-> None, end |-> None, fmt |-> "jpg", overwrite |-> TRUE,
     filename_template |-> DefaultTemplate, password |-> None,
     grayscale |-> FALSE, max_dim |-> None]

ArgValues ==
    [out_dir |-> {None, Some("out")},
     dpi |-> {DefaultDpi, 0},
     quality |-> {DefaultQuality, 0, 101},
     start |-> {None} \cup {Some(n) : n \in 2..MaxPages},
     end |-> {None} \cup {Some(n) : n \in 1..MaxPages},
     fmt |-> {"jpg", "JPEG", "png", "webp", "gif"},
     overwrite |-> BOOLEAN,
     filename_template |-> Templates,
     password |-> {None, Some(""), Some(CorrectPassword), Some("wrong")},
     grayscale |-> BOOLEAN,
     max_dim |-> {None, Some(101), Some(1000)}]

\* Every call in which at most MaxNonDefault arguments differ from their
\* defaults.
Requests ==
    UNION {
      LET Pick[ks \in SUBSET K] ==
            IF ks = {} THEN {Defaults}
            ELSE LET k == CHOOSE x \in ks : TRUE
                 IN  {[r EXCEPT ![k] = v] :
                        r \in Pick[ks \ {k}], v \in ArgValues[k] \ {Defaults[k]}}
      IN  Pick[K]
      : K \in {S \in SUBSET DOMAIN Defaults : Cardinality(S) <= MaxNonDefault}}

Pdfs == [exists : BOOLEAN, needs_pass : BOOLEAN, n_pages : 0..MaxPages]

\* Failures of the rendering engine and the codec library on one page.  A
\* failing img.save either leaves the target as it was ("encode") or leaves
\* a truncated file behind ("encode_partial").
Faults == {"none", "rasterize", "transform", "encode", "encode_partial"}

----------------------------------------------------------------------------
(* One iteration of the page loop, lines 121-150                           *)

NoImage == [page |-> 0]

Encoder(f) ==
    CASE f = "jpg"  -> "JPEG"
      [] f = "png"  -> "PNG"
      [] f = "webp" -> "WEBP"
      [] OTHER      -> "by extension"

\* A policy that never skips.
ShouldSkipNever(fs, path, overwrite) == FALSE

\* Line 135: out_file.exists() and not overwrite
ShouldSkip(fs, path, overwrite) == path \in DOMAIN fs /\ ~overwrite

\* img.save(out_file, ...): the file holds what this call encoded
Save(fs, path, content) ==
    [p \in DOMAIN fs \cup {path} |-> IF p = path THEN content ELSE fs[p]]

\* The iteration for page index idx of a call with arguments r,
\* normalised format f and output directory o, on the files fs; alpha is
\* what the engine reports for the pixmap, fault the library failure met.
\* path is the file the iteration touched ("" if none).
ExportPage(fs, r, f, o, idx, alpha, fault) ==
    LET pix  == Pixmap(r.dpi, alpha)
        t    == TransformChain(pix, f, r.grayscale, r.max_dim)
        name == OutFile(o, r.filename_template, idx, f)
        enc  == [page |-> idx + 1, src |-> pix.mode, img |-> t.img,
                 ops |-> t.ops, encoder |-> Encoder(f)]
        failed(e) == [status |-> "raised", err |-> e, files |-> fs,
                      path |-> "", encoded |-> NoImage]
    IN  IF fault = "rasterize" THEN failed("RuntimeError: get_pixmap")
        ELSE IF fault = "transform" THEN failed("MemoryError: convert")
        ELSE IF name.raised # "" THEN failed(name.raised)
        ELSE IF ShouldSkip(fs, name.path, r.overwrite)
        THEN [status |-> "skipped", err |-> "", files |-> fs,
              path |-> "", encoded |-> NoImage]
        ELSE IF fault = "encode"
        THEN [status |-> "raised", err |-> "OSError: save", files |-> fs,
              path |-> "", encoded |-> enc]
        ELSE IF fault = "encode_partial"
        THEN [status |-> "raised", err |-> "OSError: save",
              files |-> Save(fs, name.path,
                             [by |-> "this call", page |-> idx + 1, mode |-> "truncated",
                              encoder |-> Encoder(f)]),
              path |-> name.path, encoded |-> enc]
        ELSE [status |-> "saved", err |-> "",
              files |-> Save(fs, name.path,
                             [by |-> "this call", page |-> idx + 1, mode |-> t.img.mode,
                              encoder |-> Encoder(f)]),
              path |-> name.path, encoded |-> enc]

----------------------------------------------------------------------------
(* pdf_to_images, statement by statement                                   *)

\* The body with the password and the range checked after the page loop.
NextStageLoopEarly(stage) ==
    CASE stage = "validate" -> "is_file"
      [] stage = "is_file"  -> "mkdir"
      [] stage = "mkdir"    -> "open"
      [] stage = "open"     -> "range"
      [] stage = "range"    -> "loop"
      [] stage = "loop"     -> "auth"
      [] stage = "auth"     -> "return"
      [] stage = "return"   -> "done"

\* The body with the document opened before the input file is checked.
NextStageOpenEarly(stage) ==
    CASE stage = "validate" -> "mkdir"
      [] stage = "mkdir"    -> "open"
      [] stage = "open"     -> "is_file"
      [] stage = "is_file"  -> "auth"
      [] stage = "auth"     -> "range"
      [] stage = "range"    -> "loop"
      [] stage = "loop"     -> "return"
      [] stage = "return"   -> "done"

\* The order of the statements of the body, lines 86-152
NextStage(stage) ==
    CASE stage = "validate" -> "is_file"
      [] stage = "is_file"  -> "mkdir"
      [] stage = "mkdir"    -> "open"
      [] stage = "open"     -> "auth"
      [] stage = "auth"     -> "range"
      [] stage = "range"    -> "loop"
      [] stage = "loop"     -> "return"
      [] stage = "return"   -> "done"

\* An exception that leaves the handle open.
RaiseLeak(e) ==
    /\ pc' = "raised"
    /\ err' = e
    /\ UNCHANGED <<doc, closes>>

\* An exception leaves the call; inside the with block (line 109) the
\* handle is released on the way out.
Raise(e) ==
    /\ pc' = "raised"
    /\ err' = e
    /\ doc' = IF doc = "open" THEN "closed" ELSE doc
    /\ closes' = IF doc = "open" THEN closes + 1 ELSE closes

\* What an earlier call wrote is no longer the current call's.
Aged(fs) == [p \in DOMAIN fs |-> [fs[p] EXCEPT !.by = "earlier call"]]

Begin ==
    /\ pc' = "validate"
    /\ err' = ""
    /\ out' = ""
    /\ rng' = <<>>
    /\ i' = 0
    /\ doc' = "none"
    /\ authed' = FALSE
    /\ log' = <<>>
    /\ pages' = <<>>
    /\ written' = <<>>
    /\ encoded' = NoImage
    /\ opens' = 0
    /\ closes' = 0
    /\ auths' = 0
    /\ files' = Aged(files)
    /\ before' = Aged(files)
    /\ UNCHANGED <<pdf, dirs, rin, rout>>

\* pdf_to_images(...) is called.
Call ==
    /\ pc = "idle"
    /\ \E r \in Requests : req' = r /\ fmt' = r.fmt
    /\ Begin

\* The same call is made again once the previous one has ended.
Rerun ==
    /\ pc \in {"done", "raised"}
    /\ req' = req
    /\ fmt' = req.fmt
    /\ Begin

\* Lines 86-98
ValidateRequest ==
    /\ pc = "validate"
    /\ LET v == ValidateArgs(req.fmt, req.dpi, req.quality)
       IN  /\ log' = log \o v.checks
           /\ fmt' = v.fmt
           /\ IF v.raised # ""
              THEN Raise(v.raised)
              ELSE /\ pc' = NextStage("validate")
                   /\ UNCHANGED <<err, doc, closes>>
    /\ UNCHANGED <<pdf, req, out, rng, i, authed, dirs, files, pages,
                   written, encoded, opens, auths, before, rin, rout>>

\* Lines 100-102
CheckFile ==
    /\ pc = "is_file"
    /\ log' = Append(log, "is_file")
    /\ IF ~pdf.exists
       THEN Raise("FileNotFoundError: PDF not found")
       ELSE /\ pc' = NextStage("is_file")
            /\ UNCHANGED <<err, doc, closes>>
    /\ UNCHANGED <<pdf, req, fmt, out, rng, i, authed, dirs, files, pages,
                   written, encoded, opens, auths, before, rin, rout>>

\* Line 104 and _ensure_outdir
EnsureOutdir ==
    /\ pc = "mkdir"
    /\ log' = Append(log, "mkdir")
    /\ out' = IF TruthyStr(req.out_dir) THEN req.out_dir[1] ELSE PdfStem
    /\ dirs' = dirs \cup {out'}
    /\ pc' = NextStage("mkdir")
    /\ UNCHANGED <<pdf, req, err, fmt, rng, i, doc, authed, files, pages,
                   written, encoded, opens, closes, auths, before, rin, rout>>

\* Line 109
OpenDoc ==
    /\ pc = "open"
    /\ log' = Append(log, "open")
    /\ IF ~pdf.exists
       THEN /\ Raise("FileNotFoundError: no such file")
            /\ UNCHANGED opens
       ELSE /\ doc' = "open"
            /\ opens' = opens + 1
            /\ pc' = NextStage("open")
            /\ UNCHANGED <<err, closes>>
    /\ UNCHANGED <<pdf, req, fmt, out, rng, i, authed, dirs, files, pages,
                   written, encoded, auths, before, rin, rout>>

\* Lines 110-114
Authenticate ==
    /\ pc = "auth"
    /\ log' = Append(log, "auth")
    /\ IF pdf.needs_pass
       THEN IF ~TruthyStr(req.password)
            THEN /\ Raise("PermissionError: PDF is encrypted. Provide --password.")
                 /\ UNCHANGED <<auths, authed>>
            ELSE /\ auths' = auths + 1
                 /\ IF req.password[1] # CorrectPassword
                    THEN /\ Raise("PermissionError: Incorrect PDF password.")
                         /\ UNCHANGED authed
                    ELSE /\ authed' = TRUE
                         /\ pc' = NextStage("auth")
                         /\ UNCHANGED <<err, doc, closes>>
       ELSE /\ pc' = NextStage("auth")
            /\ UNCHANGED <<err, doc, closes, auths, authed>>
    /\ UNCHANGED <<pdf, req, fmt, out, rng, i, dirs, files, pages,
                   written, encoded, opens, before, rin, rout>>

\* Lines 115-117
ResolveRange ==
    /\ pc = "range"
    /\ log' = Append(log, "range")
    /\ LET r == ValidateRange(req.start, req.end, pdf.n_pages)
       IN  IF r.raised # ""
           THEN /\ Raise(r.raised)
                /\ UNCHANGED <<rng, i>>
           ELSE /\ rng' = <<r.first, r.last>>
                /\ i' = r.first
                /\ pc' = NextStage("range")
                /\ UNCHANGED <<err, doc, closes>>
    /\ UNCHANGED <<pdf, req, fmt, out, authed, dirs, files, pages,
                   written, encoded, opens, auths, before, rin, rout>>

\* A failing page is passed over and the loop goes on.
PageRaisesSwallowed(e) ==
    /\ pc' = "loop"
    /\ i' = i + 1
    /\ UNCHANGED <<err, doc, closes>>

\* An exception in the loop body: nothing catches it before main().
PageRaises(e) ==
    /\ Raise(e)
    /\ UNCHANGED i

\* Lines 120-150, one iteration
ProcessPage ==
    /\ pc = "loop"
    /\ i <= rng[2]
    /\ \E alpha \in BOOLEAN, fault \in Faults :
         LET p == ExportPage(files, req, fmt, out, i, alpha, fault)
         IN  /\ log' = Append(log, "page")
             /\ pages' = Append(pages, [page |-> i, status |-> p.status,
                                        path |-> p.path])
             /\ files' = p.files
             /\ encoded' = p.encoded
             /\ written' = IF p.status = "saved" THEN Append(written, p.path)
                                                 ELSE written
             /\ IF p.status = "raised"
                THEN PageRaises(p.err)
                ELSE /\ i' = i + 1
                     /\ UNCHANGED <<pc, err, doc, closes>>
    /\ UNCHANGED <<pdf, req, fmt, out, rng, authed, dirs, opens, auths,
                   before, rin, rout>>

\* The range is exhausted (line 120).
LoopExit ==
    /\ pc = "loop"
    /\ i > rng[2]
    /\ pc' = NextStage("loop")
    /\ UNCHANGED <<pdf, req, err, fmt, out, rng, i, doc, authed, dirs,
                   files, log, pages, written, encoded, opens, closes, auths,
                   before, rin, rout>>

\* The with block ends and out_dir is returned (lines 109, 152).
Return ==
    /\ pc = "return"
    /\ doc' = IF doc = "open" THEN "closed" ELSE doc
    /\ closes' = IF doc = "open" THEN closes + 1 ELSE closes
    /\ pc' = NextStage("return")
    /\ UNCHANGED <<pdf, req, err, fmt, out, rng, i, authed, dirs, files,
                   log, pages, written, encoded, opens, auths, before, rin,
                   rout>>

NoResult == [raised |-> "not called"]

Init ==
    /\ pdf \in Pdfs
    /\ req = Defaults
    /\ pc = "idle"
    /\ err = ""
    /\ fmt = Defaults.fmt
    /\ out = ""
    /\ rng = <<>>
    /\ i = 0
    /\ doc = "none"
    /\ authed = FALSE
    /\ dirs = {}
    /\ files = <<>>
    /\ log = <<>>
    /\ pages = <<>>
    /\ written = <<>>
    /\ encoded = NoImage
    /\ opens = 0
    /\ closes = 0
    /\ auths = 0
    /\ before = <<>>
    /\ rin = <<None, None, 0>>
    /\ rout = NoResult

Next ==
    \/ Call
    \/ Rerun
    \/ ValidateRequest
    \/ CheckFile
    \/ EnsureOutdir
    \/ OpenDoc
    \/ Authenticate
    \/ ResolveRange
    \/ ProcessPage
    \/ LoopExit
    \/ Return

Spec == Init /\ [][Next]_vars

----------------------------------------------------------------------------
(* _validate_range on its own, over every input within the bounds          *)

RangeArgs == {None} \cup {Some(n) : n \in -1..(MaxPages + 2)}

InitRange ==
    /\ pdf = [exists |-> TRUE, needs_pass |-> FALSE, n_pages |-> 0]
    /\ req = Defaults
    /\ pc = "idle"
    /\ err = ""
    /\ fmt = Defaults.fmt
    /\ out = ""
    /\ rng = <<>>
    /\ i = 0
    /\ doc = "none"
    /\ authed = FALSE
    /\ dirs = {}
    /\ files = <<>>
    /\ log = <<>>
    /\ pages = <<>>
    /\ written = <<>>
    /\ encoded = NoImage
    /\ opens = 0
    /\ closes = 0
    /\ auths = 0
    /\ before = <<>>
    /\ rin \in RangeArgs \X RangeArgs \X (0..(MaxPages + 1))
    /\ rout = NoResult

CallValidateRange ==
    /\ rout = NoResult
    /\ rout' = ValidateRange(rin[1], rin[2], rin[3])
    /\ UNCHANGED <<rin, pipeVars>>

SpecRange == InitRange /\ [][CallValidateRange]_vars

----------------------------------------------------------------------------
(* Properties of range resolution, checked under SpecRange                 *)

Called == rout.raised # NoResult.raised

\* What a call of _validate_range came to: a failure, or the pair returned
Outcome(r) == IF r.raised # "" THEN <<"raised">> ELSE <<"returned", r.first, r.last>>

\* C1: for every page count and every start and end, absent or a present
\* integer, first is 0 for an absent start and max(0, start-1) for a present
\* one, last is pageCount-1 for an absent end and min(pageCount-1, end-1) for
\* a present one; the call fails exactly when first > last and otherwise
\* returns (first, last).
C1_RangeFormulas ==
    Called =>
      LET first == IF rin[1] = None THEN 0 ELSE Max(0, rin[1][1] - 1)
          last  == IF rin[2] = None THEN rin[3] - 1
                                    ELSE Min(rin[3] - 1, rin[2][1] - 1)
      IN  Outcome(rout) = IF first > last THEN <<"raised">>
                                          ELSE <<"returned", first, last>>

\* C2: whenever _validate_range returns (first, last), 0 <= first <= last <=
\* pageCount-1; and the outcome for start=1 is the outcome for an absent start
\* with the same end and page count.
C2_RangeWithinDocument ==
    Called =>
      /\ rout.raised = "" =>
           /\ 0 <= rout.first
           /\ rout.first <= rout.last
           /\ rout.last <= rin[3] - 1
      /\ rin[1] = Some(1) =>
           Outcome(rout) = Outcome(ValidateRange(None, rin[2], rin[3]))

\* start=1 with an end beyond the last page: the call returned the clamped pair.
C2_Witness ==
    /\ Called
    /\ rout.raised = ""
    /\ rin[1] = Some(1)
    /\ rin[2] # None
    /\ rin[2][1] > rin[3]
    /\ rout.last = rin[3] - 1

----------------------------------------------------------------------------
(* Properties of the pipeline, checked under Spec                          *)

ValidationErrors ==
    {"ValueError: Unsupported format", "ValueError: dpi must be > 0.",
     "ValueError: quality must be in [1, 100].", "ValueError: Invalid range"}

NotFoundErrors == {"FileNotFoundError: PDF not found"}

PermissionErrors ==
    {"PermissionError: PDF is encrypted. Provide --password.",
     "PermissionError: Incorrect PDF password."}

Statuses == {pages[k].status : k \in 1..Len(pages)}

Wrote == {written[k] : k \in 1..Len(written)}

\* The paths the current call saved to or left truncated
Touched == {pages[k].path : k \in 1..Len(pages)} \ {""}

\* C3: a page whose target path exists while overwrite is disabled is skipped:
\* the file keeps its content, no error is raised and the loop goes on with
\* the next page.  So a repeated call with overwrite disabled leaves every
\* file with the content it had, and a repeated call with overwrite enabled
\* that completes leaves every file with the content of that call.
C3_OverwritePolicy ==
    /\ ~req.overwrite =>
         /\ \A p \in DOMAIN before : p \in DOMAIN files /\ files[p] = before[p]
         /\ Wrote \cap DOMAIN before = {}
    /\ \A k \in 1..Len(pages) :
         pages[k].status = "skipped" =>
           /\ ~req.overwrite
           /\ k < Len(pages) => pages[k + 1].page = pages[k].page + 1
           /\ k = Len(pages) => /\ pc # "raised"
                                /\ err = ""
                                /\ pc = "loop" => i = pages[k].page + 1
    /\ (req.overwrite /\ pc = "done") =>
         \A p \in DOMAIN before : p \in DOMAIN files /\ files[p].by = "this call"

\* The second call with overwrite disabled has skipped a page and ended, and
\* the files of the first call are there.
C3_Witness ==
    /\ pc = "done"
    /\ ~req.overwrite
    /\ Len(pages) = 2
    /\ Statuses = {"skipped"}
    /\ before # <<>>
    /\ files = before
    /\ \A p \in DOMAIN files : files[p].by = "earlier call"

\* C4: with a png target the flatten step is never applied and a page
\* rasterized as RGBA reaches the encoder with its alpha channel, whatever
\* grayscale and max_dim are.
C4_PngKeepsAlpha ==
    (fmt = "png" /\ encoded.page # 0) =>
      /\ \A k \in 1..Len(encoded.ops) : encoded.ops[k].op # "flatten"
      /\ encoded.src = "RGBA" => encoded.img.mode = "RGBA"

\* C5: a call that ends in a validation error, a not-found error or a
\* permission error has written no output file.
C5_NoWriteBeforeValidation ==
    (pc = "raised" /\ err \in ValidationErrors \cup NotFoundErrors \cup PermissionErrors) =>
      /\ written = <<>>
      /\ files = before
      /\ pages = <<>>

\* The page range turned out empty after the output directory was created.
C5_Witness ==
    /\ pc = "raised"
    /\ err = "ValueError: Invalid range"
    /\ dirs # {}
    /\ doc = "closed"
    /\ files = <<>>

\* The file names the default template gives, written out digit by digit
ExpectedName(page) == "doc_p00" \o Digit[page + 1]

ExpectedExt ==
    CASE req.fmt \in {"jpg", "JPEG"} -> "jpg"
      [] req.fmt = "png"             -> "png"
      [] req.fmt = "webp"            -> "webp"
      [] OTHER                       -> "?"

ExpectedDir == IF req.out_dir = Some("out") THEN "out" ELSE "doc"

\* C6: a call that completes, with the default template and no file in the
\* output directory before it, has processed the pages first..last in
\* ascending order, each once, and the files present are exactly
\* <stem>_p<NNN>.<ext> for the 1-based numbers of these pages.
C6_ExactlyTheRange ==
    (pc = "done" /\ before = <<>> /\ req.filename_template = DefaultTemplate) =>
      /\ Len(pages) = rng[2] - rng[1] + 1
      /\ \A k \in 1..Len(pages) : pages[k].page = rng[1] + k - 1
      /\ DOMAIN files =
           {ExpectedDir \o "/" \o ExpectedName(n) \o "." \o ExpectedExt :
              n \in (rng[1] + 1)..(rng[2] + 1)}
      /\ Cardinality(DOMAIN files) = rng[2] - rng[1] + 1
      /\ \A p \in DOMAIN files : files[p].by = "this call"

\* start=2, end=2 on a document of at least two pages: only page 2 is there.
C6_Witness ==
    /\ pc = "done"
    /\ before = <<>>
    /\ req.start = Some(2)
    /\ req.end = Some(2)
    /\ DOMAIN files = {"doc/doc_p002.jpg"}

\* C7: the handle opened by a call is released exactly once on every way out
\* that follows the open, and no page is read from it after the release.
C7_HandleReleasedOnce ==
    /\ opens <= 1
    /\ closes <= opens
    /\ (pc \in {"done", "raised"} /\ opens = 1) => (closes = 1 /\ doc = "closed")
    /\ pc \in {"auth", "range", "loop"} => doc = "open"
    /\ closes > 0 => pc \in {"done", "raised"}

\* The encoder failed on the second page; the handle was released once.
C7_Witness ==
    /\ pc = "raised"
    /\ err = "OSError: save"
    /\ Len(pages) = 2
    /\ opens = 1
    /\ closes = 1
    /\ doc = "closed"

\* The stages of the claim, in its order
StageRank(s) ==
    CASE s = "format"  -> 1
      [] s = "dpi"     -> 2
      [] s = "quality" -> 3
      [] s = "is_file" -> 4
      [] s = "mkdir"   -> 5
      [] s = "open"    -> 6
      [] s = "auth"    -> 7
      [] s = "range"   -> 8
      [] s = "page"    -> 9

Logged == {log[k] : k \in 1..Len(log)}

\* The failure the claim's order makes the first one, "" if none before the
\* page loop
FirstFailure ==
    LET lossy == req.fmt \in {"jpg", "JPEG", "webp"}
    IN  IF req.fmt \notin {"jpg", "JPEG", "png", "webp"}
          THEN "ValueError: Unsupported format"
        ELSE IF req.dpi <= 0 THEN "ValueError: dpi must be > 0."
        ELSE IF lossy /\ (req.quality < 1 \/ req.quality > 100)
          THEN "ValueError: quality must be in [1, 100]."
        ELSE IF ~pdf.exists THEN "FileNotFoundError: PDF not found"
        ELSE IF pdf.needs_pass /\ req.password \in {None, Some("")}
          THEN "PermissionError: PDF is encrypted. Provide --password."
        ELSE IF pdf.needs_pass /\ req.password # Some(CorrectPassword)
          THEN "PermissionError: Incorrect PDF password."
        ELSE IF ValidateRange(req.start, req.end, pdf.n_pages).raised # ""
          THEN "ValueError: Invalid range"
        ELSE ""

\* C8: the stages run in the order format, DPI, quality (jpg and webp),
\* input file, output directory, open, authentication, range, pages, and the
\* first failing one is reported.  A bad quality and a missing input file
\* fail before the document is opened; an encrypted document is authenticated
\* once, before the range is resolved and before any page is rasterized.
C8_StageOrder ==
    /\ \A j, k \in 1..Len(log) :
         j < k => \/ StageRank(log[j]) < StageRank(log[k])
                  \/ (log[j] = "page" /\ log[k] = "page")
    /\ \A s \in Logged :
         \A t \in {"format", "dpi", "is_file", "mkdir", "open", "auth", "range"} :
           StageRank(t) < StageRank(s) => t \in Logged
    /\ ("is_file" \in Logged /\ req.fmt \in {"jpg", "JPEG", "webp"}) => "quality" \in Logged
    /\ pc \in {"raised", "loop", "return", "done"} =>
         IF FirstFailure # ""
         THEN pc = "raised" /\ err = FirstFailure
         ELSE err \notin ValidationErrors \cup NotFoundErrors \cup PermissionErrors
    /\ err \in {"ValueError: quality must be in [1, 100].",
                "FileNotFoundError: PDF not found"} =>
         (opens = 0 /\ "open" \notin Logged)
    /\ err \in PermissionErrors =>
         ("range" \notin Logged /\ "page" \notin Logged /\ pages = <<>>)
    /\ auths <= 1
    /\ (pdf.needs_pass /\ ("range" \in Logged \/ "page" \in Logged)) =>
         (auths = 1 /\ authed)

\* An encrypted document, no usable password and an empty page range: the
\* permission error is the one reported.
C8_Witness ==
    /\ pc = "raised"
    /\ err \in PermissionErrors
    /\ pdf.needs_pass
    /\ ValidateRange(req.start, req.end, pdf.n_pages).raised # ""
    /\ log = <<"format", "dpi", "quality", "is_file", "mkdir", "open", "auth">>

OpRank(o) ==
    CASE o = "flatten"   -> 1
      [] o = "grayscale" -> 2
      [] o = "downscale" -> 3

EncodedOps == {encoded.ops[k].op : k \in 1..Len(encoded.ops)}

\* C9: the chain runs flatten (jpg and webp only), then grayscale (when
\* requested), then downscale (when a cap is set and exceeded).  For jpg and
\* webp the image handed to the encoder has no alpha channel: it is RGB with
\* grayscale off and L with grayscale on, and grayscale is applied to the
\* flattened image only.
C9_TransformOrder ==
    encoded.page # 0 =>
      /\ \A j, k \in 1..Len(encoded.ops) :
           j < k => OpRank(encoded.ops[j].op) < OpRank(encoded.ops[k].op)
      /\ "flatten" \in EncodedOps <=> fmt \in {"jpg", "webp"}
      /\ "grayscale" \in EncodedOps <=> req.grayscale
      /\ "downscale" \in EncodedOps <=>
           (req.max_dim # None /\ Max(encoded.img.w, encoded.img.h) <= req.max_dim[1]
              /\ Max(CeilDiv(PageSizePt[1] * req.dpi, 72),
                     CeilDiv(PageSizePt[2] * req.dpi, 72)) > req.max_dim[1])
      /\ fmt \in {"jpg", "webp"} =>
           /\ encoded.img.mode = IF req.grayscale THEN "L" ELSE "RGB"
           /\ \A k \in 1..Len(encoded.ops) :
                encoded.ops[k].op = "grayscale" => encoded.ops[k].on = "RGB"

\* An RGBA page, a jpg target and grayscale on: the encoder got an L image.
C9_Witness ==
    /\ fmt = "jpg"
    /\ encoded.page # 0
    /\ encoded.src = "RGBA"
    /\ req.grayscale
    /\ encoded.img.mode = "L"
    /\ Len(encoded.ops) = 2

\* The page that failed is the last one read, the error has left the call
\* and the loop variable stands at that page: nothing later is rasterized or
\* written and the page is not tried again.
AbortsAtFailingPage ==
    /\ \A k \in 1..Len(pages) :
         pages[k].status = "raised" =>
           /\ k = Len(pages)
           /\ pc = "raised"
           /\ err # ""
           /\ i = pages[k].page
    /\ \A j, k \in 1..Len(pages) : j < k => pages[j].page < pages[k].page

\* The file saved for the k-th page read holds that page as this call saved it.
HoldsOwnPage(k) ==
    /\ pages[k].path \in DOMAIN files
    /\ files[pages[k].path].by = "this call"
    /\ files[pages[k].path].page = pages[k].page + 1
    /\ files[pages[k].path].mode # "truncated"

\* C10 as stated: when the processing of a page fails the call ends there:
\* the error leaves the call, no later page is rasterized or written, the
\* page is not tried again, and the file written for every earlier page
\* stays with the content this call gave it.
C10_EveryEarlierFileKept ==
    /\ AbortsAtFailingPage
    /\ (pc = "raised" /\ pages # <<>>) =>
         \A k \in 1..Len(pages) : pages[k].status = "saved" => HoldsOwnPage(k)

\* C10 as amended: when the processing of a page fails the call ends there:
\* the error leaves the call, no later page is rasterized or written and the
\* page is not tried again.  Nothing is rolled back: every path the call
\* saved to still holds a file of this call, and the file written for an
\* earlier page stays with the content this call gave it unless a later
\* page of the call had the same target path (a template without the page
\* number), in which case the file is as the last such page left it.  Files
\* the call did not touch are as they were.
C10_AbortKeepsEarlierFiles ==
    /\ AbortsAtFailingPage
    /\ (pc = "raised" /\ pages # <<>>) =>
         /\ \A k \in 1..Len(pages) :
              pages[k].status = "saved" =>
                /\ pages[k].path \in DOMAIN files
                /\ files[pages[k].path].by = "this call"
                /\ LET last == CHOOSE j \in k..Len(pages) :
                                 /\ pages[j].path = pages[k].path
                                 /\ \A m \in (j + 1)..Len(pages) :
                                      pages[m].path # pages[k].path
                   IN  /\ files[pages[k].path].page = pages[last].page + 1
                       /\ files[pages[k].path].mode = "truncated" <=>
                            pages[last].status = "raised"
                       /\ last = k => HoldsOwnPage(k)
         /\ \A p \in DOMAIN before \ Touched : p \in DOMAIN files /\ files[p] = before[p]
         /\ DOMAIN files = DOMAIN before \cup Touched
         /\ Len(written) = Cardinality({k \in 1..Len(pages) : pages[k].status = "saved"})

\* The first page was saved, the second failed: the first page's file is there.
C10_Witness ==
    /\ pc = "raised"
    /\ Len(pages) = 2
    /\ pages[1].status = "saved"
    /\ pages[2].status = "raised"
    /\ Len(written) = 1
    /\ written[1] \in DOMAIN files
    /\ files[written[1]].by = "this call"
    /\ files[written[1]].page = pages[1].page + 1
    /\ req.filename_template = DefaultTemplate

====
